---- MODULE Spec2Model ----
(***************************************************************************)
(* Live-reload core of the markdown preview server:                        *)
(*   src/src/index.ts              main, loadMarkdown, routes, wiring      *)
(*   src/src/watcher/file-watcher.ts  ClientManager, TypeScriptRebuilder,  *)
(*                                    FileWatcher                          *)
(*   src/src/config.ts             constants                               *)
(* One action per handler; every handler runs to completion (Node's single *)
(* threaded event loop), so an action is the whole handler body.           *)
(***************************************************************************)
EXTENDS Integers, Sequences, FiniteSets, TLC

(* ------------------------------ bounds --------------------------------- *)
\* Response objects that may ever be created by GET /events.
NumChannels == 3
\* Writes the environment makes to the markdown file.
MaxEdits == 1
\* Source-tree change events that can be waiting for their handler.
MaxSourcePending == 1
\* Slots for tsc subprocesses that can be alive at the same time.
MaxProcs == 2
\* Length the clients array may reach when the ClientManager methods are
\* called directly, in any order.
MaxRegistrations == 4
\* Fenced code blocks in a markdown document given to the code renderer.
MaxBlocks == 2
\* Segments of the path given on the command line.
MaxSegments == 2
\* 'change' events of the markdown file that a burst of saves leaves pending.
MaxBurst == 2
\* Further calls of one watch method on a FileWatcher that is watching.
MaxRewatch == 1

Channels == 1..NumChannels
ProcSlots == 1..MaxProcs

(* ----------------------------- constants ------------------------------- *)
\* a reload message that carries an event type as well
RELOAD_MESSAGE_WithEventType == "event: reload\ndata: reload\n\n"

RELOAD_MESSAGE == "data: reload\n\n"
ERROR_LOADING_FILE == [tag |-> "error", of |-> 0]
\* config.ts MESSAGES and the other lines the handlers log
ERROR_NO_FILE == "Error: Please provide a markdown file path as argument"
USAGE == "Usage: npm start <path-to-markdown-file.md>"
ERROR_READING_FILE == "Error reading file: "
REBUILD_IN_PROGRESS == "Rebuild already in progress, skipping..."
REBUILDING == "Rebuilding TypeScript..."
REBUILD_COMPLETE == "Rebuild complete! Reloading browser..."
REBUILD_FAILED_PREFIX == "Rebuild failed with code "
FILE_CHANGED_PREFIX == "Markdown file changed: "
SOURCE_CHANGED_PREFIX == "Source file changed: "
WATCH_MODE_ENABLED == "Watch mode enabled: TypeScript will auto-rebuild on changes"
\* `let currentHtmlContent: string;` before main() has assigned it
Undefined == [tag |-> "undefined", of |-> 0]
\* exit code `null` that 'close' reports when the child was killed by a signal
NullCode == -1
\* outcomes of `npx tsc`: success, compile errors, killed by a signal
ExitCodes == {0, 1, NullCode}
\* values of process.env.WATCH_MODE ("undefined" = the variable is absent)
WatchModeValues == {"true", "1", "undefined"}

\* Paths the source watcher can report, as character sequences.
SourcePaths ==
  { <<"a", ".", "t", "s">>,
    <<"a", ".", "j", "s">>,
    <<"a", ".", "j", "s", "o", "n">>,
    <<".", "b", ".", "t", "s">>,
    <<"/", ".", "d", "/", "a", ".", "t", "s">> }

VARIABLES
  pc,                 \* "init" | "running" | "exited" | "crashed"
  exitCode,           \* process exit code, -1 while the process has not exited
  argsLength,         \* process.argv.slice(2).length
  watchModeEnv,       \* process.env.WATCH_MODE
  file,               \* the markdown file on disk: [readable, content]
  currentHtmlContent, \* index.ts: let currentHtmlContent
  listening,          \* app.listen has been called
  clients,            \* ClientManager.clients
  conn,               \* per Response object: "new" | "open" | "closing" | "closed"
  out,                \* what the latest step emitted: the writes made to the
                      \* channels, in order, the Response whose write threw,
                      \* the lines logged, and the number of onSuccess
                      \* callbacks it invoked
  markdownWatcher,    \* FileWatcher.markdownWatcher: "undefined" | "watching"
                      \* | "closing" | "closed"
  sourceWatcher,      \* FileWatcher.sourceWatcher: "undefined" | "watching"
                      \* | "closing" | "closed"
  mdPending,          \* 'change' events of the markdown watcher not yet handled
  srcPending,         \* 'change' events (paths) of the source watcher not yet handled
  isRebuilding,       \* TypeScriptRebuilder.isRebuilding
  tsc,                \* subprocess slots: [st, code]
  stopCall,           \* the stopWatching() call: "none" | "awaitMarkdown" |
                      \* "awaitSource" | "returned"
  cwd,                \* process.cwd()
  arg0,               \* process.argv.slice(2)[0], Undefined when absent
  markdownFilePath,   \* main()'s markdownFilePath, Undefined before it is set
  replaced            \* per field of the FileWatcher, the watchers that were
                      \* overwritten in the field while still watching

vars == << pc, exitCode, argsLength, watchModeEnv, file, currentHtmlContent,
           listening, clients, conn, out, markdownWatcher,
           sourceWatcher, mdPending, srcPending, isRebuilding, tsc,
           stopCall, cwd, arg0, markdownFilePath, replaced >>

\* the command line and the path derived from it
cliVars == << cwd, arg0, markdownFilePath >>

(* ------------------------------ helpers -------------------------------- *)
Range(s) == { s[i] : i \in 1..Len(s) }

\* String.prototype.includes in place of endsWith
EndsWithAnywhere(path, suffix) ==
  \E i \in 1..Len(path) :
    /\ i + Len(suffix) - 1 <= Len(path)
    /\ SubSeq(path, i, i + Len(suffix) - 1) = suffix

\* String.prototype.endsWith on character sequences
EndsWith(path, suffix) ==
  /\ Len(path) >= Len(suffix)
  /\ SubSeq(path, Len(path) - Len(suffix) + 1, Len(path)) = suffix

\* FILE_WATCHER_OPTIONS.ignored = /(^|[/\\])\../ : a '.' at the start of the
\* path or right after a separator, followed by at least one more character
Ignored(path) ==
  \E i \in 1..Len(path) :
    /\ path[i] = "."
    /\ i = 1 \/ path[i - 1] \in {"/", "\\"}
    /\ i < Len(path)

\* the external markdown renderer: a distinct document per file content
parseMarkdown(content) == [tag |-> "html", of |-> content]

\* index.ts loadMarkdown: readFileSync throws on an unreadable file, the
\* catch block returns MESSAGES.ERROR_LOADING_FILE
loadMarkdown(f) ==
  IF f.readable THEN parseMarkdown(f.content) ELSE ERROR_LOADING_FILE

\* what loadMarkdown logs: console.error in the catch block
loadMarkdownLog(f) ==
  IF f.readable THEN << >> ELSE << ERROR_READING_FILE >>

(* --------------------------- ClientManager ----------------------------- *)
addClient(cl, c) == Append(cl, c)

\* Array.prototype.indexOf: 0-based index of the first occurrence, or -1
IndexOf(cl, c) ==
  IF \E i \in 1..Len(cl) : cl[i] = c
    THEN (CHOOSE i \in 1..Len(cl) :
            cl[i] = c /\ \A j \in 1..(i - 1) : cl[j] # c) - 1
    ELSE -1

\* Array.prototype.splice(index, 1)
Splice1(cl, index) ==
  SubSeq(cl, 1, index) \o SubSeq(cl, index + 2, Len(cl))

\* splice(index) without the delete count: drops every later client too
removeClientTruncating(cl, c) ==
  IF IndexOf(cl, c) # -1 THEN SubSeq(cl, 1, IndexOf(cl, c)) ELSE cl

\* removal that moves the last client into the freed position
removeClientSwapLast(cl, c) ==
  IF IndexOf(cl, c) # -1
    THEN SubSeq([cl EXCEPT ![IndexOf(cl, c) + 1] = cl[Len(cl)]],
                1, Len(cl) - 1)
    ELSE cl

removeClient(cl, c) ==
  IF IndexOf(cl, c) # -1 THEN Splice1(cl, IndexOf(cl, c)) ELSE cl

\* this.clients.forEach(client => client.write("data: reload\n\n")):
\* the writes happen in array order; a write that throws ends the loop and
\* the exception leaves notifyReload.  thr is the set of Response objects
\* whose write() throws.  The result holds the writes that were made and the
\* Response whose write threw; html is the value of the rendered-content
\* cell at the time of the write (what GET / would return then).
RECURSIVE forEachWrite(_, _, _)
forEachWrite(cl, thr, html) ==
  IF cl = << >> THEN [writes |-> << >>, threw |-> {}]
  ELSE IF Head(cl) \in thr THEN [writes |-> << >>, threw |-> {Head(cl)}]
  ELSE LET rest == forEachWrite(Tail(cl), thr, html)
       IN [writes |-> << [to |-> Head(cl), data |-> RELOAD_MESSAGE,
                          html |-> html] >> \o rest.writes,
           threw |-> rest.threw]

notifyReload(cl, thr, html) == forEachWrite(cl, thr, html)

getClientCount(cl) == Len(cl)

\* a step that writes to no channel, logs nothing and sends no response
Quiet ==
  [writes |-> << >>, threw |-> {}, log |-> << >>, calls |-> 0,
   response |-> << >>]

Emit(r, log, calls) ==
  [writes |-> r.writes, threw |-> r.threw, log |-> log, calls |-> calls,
   response |-> << >>]

\* the lines that are printed with console.error (getMarkdownFilePath,
\* loadMarkdown); every other line is printed with console.log
ConsoleErrorLines == { ERROR_NO_FILE, ERROR_READING_FILE }

\* what a step printed to standard error and to standard output
Stderr(o) == SelectSeq(o.log, LAMBDA l : l \in ConsoleErrorLines)
Stdout(o) == SelectSeq(o.log, LAMBDA l : l \notin ConsoleErrorLines)

(* ---------------------------- html generator --------------------------- *)
\* generateHead(): fixed markup (meta, title, stylesheet, scripts, styles)
generateHead == "<meta charset=\"UTF-8\"> ... <style> ... </style>"

\* a body template that does not interpolate its argument
generateBodyWithoutContent(content) ==
  [container |-> Undefined, script |-> "/mermaid-init.js"]

\* generateBody(content): the content inside <div class="container">,
\* followed by the script tag of the mermaid initialisation
generateBody(content) ==
  [container |-> content, script |-> "/mermaid-init.js"]

\* generateHtmlTemplate(content): the complete document
generateHtmlTemplate(content) ==
  [doctype |-> "<!DOCTYPE html>", lang |-> "en", head |-> generateHead,
   body |-> generateBody(content)]

(* ------------------------- TypeScriptRebuilder ------------------------- *)
\* rebuild() without the in-progress check
RebuildSkippedNever(flag) == FALSE

\* rebuild() with the in-progress test inverted
RebuildSkippedWhenIdle(flag) == ~flag

\* rebuild(): `if (this.isRebuilding) return;`
RebuildSkipped(flag) == flag

\* close handler that invokes onSuccess whatever the exit code
CallsOnSuccessAlways(code) == TRUE

\* close handler testing for "not the failure code 1" instead of 0
CallsOnSuccessUnlessOne(code) == code # 1

\* close handler: `if (code === 0) onSuccess()`
CallsOnSuccess(code) == code = 0

\* the first slot that holds no subprocess
FreeSlot(p) == tsc[p].st = "free" /\ \A q \in 1..(p - 1) : tsc[q].st # "free"

(* -------------------------------- paths -------------------------------- *)
\* A POSIX path: whether it begins with '/', and its segments between the
\* separators (empty segments dropped).
DefaultCwd == [abs |-> TRUE, segs |-> << "w" >>]
DefaultArg == [abs |-> FALSE, segs |-> << "t.md" >>]

\* path.normalize's segment walk: '.' is dropped, '..' removes the segment
\* before it, or is kept when nothing is left and the path is relative
RECURSIVE normalizeString(_, _, _)
normalizeString(segs, allowAboveRoot, res) ==
  IF segs = << >> THEN res
  ELSE LET seg == Head(segs)
           next ==
             IF seg = "." THEN res
             ELSE IF seg = ".."
               THEN IF res # << >> /\ res[Len(res)] # ".."
                      THEN SubSeq(res, 1, Len(res) - 1)
                      ELSE IF allowAboveRoot THEN Append(res, "..") ELSE res
               ELSE Append(res, seg)
       IN normalizeString(Tail(segs), allowAboveRoot, next)

normalize(path) ==
  [abs |-> path.abs, segs |-> normalizeString(path.segs, ~path.abs, << >>)]

\* path.join(a, b) for a non-empty a: the two strings are glued with '/'
\* and the result normalized, so a leading '/' of b is only a separator
join(a, b) == normalize([abs |-> a.abs, segs |-> a.segs \o b.segs])

\* getMarkdownFilePath when an argument was given
getMarkdownFilePath(dir, arg) == join(dir, arg)

\* a FileWatcher none of whose watchers was overwritten
NoneReplaced == [markdown |-> 0, source |-> 0]

(* ------------------------------- Init ---------------------------------- *)
Init ==
  /\ pc = "init"
  /\ exitCode = -1
  /\ argsLength \in {0, 1}
  /\ watchModeEnv \in WatchModeValues
  /\ file \in [readable : BOOLEAN, content : {0}]
  /\ currentHtmlContent = Undefined
  /\ listening = FALSE
  /\ clients = << >>
  /\ conn = [c \in Channels |-> "new"]
  /\ out = Quiet
  /\ markdownWatcher = "undefined"
  /\ sourceWatcher = "undefined"
  /\ mdPending = 0
  /\ srcPending = << >>
  /\ isRebuilding = FALSE
  /\ tsc = [p \in ProcSlots |-> [st |-> "free", code |-> 0]]
  /\ stopCall = "none"
  /\ cwd = DefaultCwd
  /\ arg0 = IF argsLength = 0 THEN Undefined ELSE DefaultArg
  /\ markdownFilePath = Undefined
  /\ replaced = NoneReplaced

(* ------------------------------- chokidar ------------------------------ *)
\* FILE_WATCHER_OPTIONS.ignoreInitial
IGNORE_INITIAL == TRUE

\* a watcher that reports the file it finds at subscription as changed
InitialEventsAsChange(ignoreInitial) == << "change" >>

\* events chokidar raises for the file found by its initial scan: an 'add',
\* unless ignoreInitial is set
InitialEvents(ignoreInitial) == IF ignoreInitial THEN << >> ELSE << "add" >>

\* runs of a listener registered with .on(name, ...) for a batch of events
ListenerRuns(events, name) ==
  Cardinality({ i \in 1..Len(events) : events[i] = name })

(* ------------------------------ startup -------------------------------- *)
\* a truthiness test, `if (process.env.WATCH_MODE)`, instead of === "true"
watchModeTruthy(env) == env # "undefined"

\* main(): `const watchMode = process.env.WATCH_MODE === "true"`
watchMode(env) == env = "true"

\* main() runs synchronously from configureMarked() to app.listen().
\* getMarkdownFilePath exits with code 1 when no argument was given.
\* loadMarkdown never throws (it catches the read error itself), so the
\* try/catch around the initial load never reaches process.exit(1).
Main ==
  /\ pc = "init"
  /\ IF argsLength = 0
       THEN /\ pc' = "exited"
            /\ exitCode' = 1
            /\ out' = [Quiet EXCEPT !.log = << ERROR_NO_FILE, USAGE >>]
            /\ UNCHANGED << currentHtmlContent, listening, markdownWatcher,
                            sourceWatcher, mdPending >>
       ELSE /\ currentHtmlContent' = loadMarkdown(file)
            /\ mdPending' = ListenerRuns(InitialEvents(IGNORE_INITIAL), "change")
            /\ out' = [Quiet EXCEPT !.log =
                         loadMarkdownLog(file) \o
                         (IF watchMode(watchModeEnv)
                            THEN << WATCH_MODE_ENABLED >> ELSE << >>)]
            /\ markdownWatcher' = "watching"
            /\ sourceWatcher' =
                 IF watchMode(watchModeEnv) THEN "watching" ELSE "undefined"
            /\ listening' = TRUE
            /\ pc' = "running"
            /\ UNCHANGED exitCode
  /\ markdownFilePath' = IF argsLength = 0 THEN markdownFilePath
                          ELSE getMarkdownFilePath(cwd, arg0)
  /\ UNCHANGED << argsLength, watchModeEnv, file, clients, conn,
                  srcPending, isRebuilding, tsc >>
  /\ UNCHANGED << stopCall, cwd, arg0, replaced >>

(* ---------------------------- environment ------------------------------ *)
\* Something writes the markdown file; chokidar raises 'change' when the
\* file is being watched (ignoreInitial: nothing is raised on subscription).
EditFile ==
  /\ pc = "running"
  /\ file.content < MaxEdits
  /\ file' = [file EXCEPT !.content = @ + 1]
  /\ mdPending' = IF markdownWatcher = "watching" THEN mdPending + 1
                  ELSE mdPending
  /\ out' = Quiet
  /\ UNCHANGED << pc, exitCode, argsLength, watchModeEnv, currentHtmlContent,
                  listening, clients, conn, markdownWatcher, sourceWatcher,
                  srcPending, isRebuilding, tsc >>
  /\ UNCHANGED stopCall
  /\ UNCHANGED cliVars
  /\ UNCHANGED replaced

\* The file becomes unreadable (deleted, permissions) or readable again.
\* Neither raises a 'change' event.
SetReadable ==
  /\ pc = "running"
  /\ file' = [file EXCEPT !.readable = ~@]
  /\ out' = Quiet
  /\ UNCHANGED << pc, exitCode, argsLength, watchModeEnv, currentHtmlContent,
                  listening, clients, conn, markdownWatcher, sourceWatcher,
                  mdPending, srcPending, isRebuilding, tsc >>
  /\ UNCHANGED stopCall
  /\ UNCHANGED cliVars
  /\ UNCHANGED replaced

\* A file of the source tree is modified.  The watcher drops the paths that
\* match FILE_WATCHER_OPTIONS.ignored and raises 'change' for the others.
TouchSource(path) ==
  /\ pc = "running"
  /\ sourceWatcher = "watching"
  /\ ~Ignored(path)
  /\ Len(srcPending) < MaxSourcePending
  /\ srcPending' = Append(srcPending, path)
  /\ out' = Quiet
  /\ UNCHANGED << pc, exitCode, argsLength, watchModeEnv, file,
                  currentHtmlContent, listening, clients, conn,
                  markdownWatcher, sourceWatcher, mdPending, isRebuilding,
                  tsc >>
  /\ UNCHANGED stopCall
  /\ UNCHANGED cliVars
  /\ UNCHANGED replaced

\* The client goes away; the request's 'close' event is now pending.
Disconnect(c) ==
  /\ pc = "running"
  /\ conn[c] = "open"
  /\ conn' = [conn EXCEPT ![c] = "closing"]
  /\ out' = Quiet
  /\ UNCHANGED << pc, exitCode, argsLength, watchModeEnv, file,
                  currentHtmlContent, listening, clients, markdownWatcher,
                  sourceWatcher, mdPending, srcPending, isRebuilding, tsc >>
  /\ UNCHANGED stopCall
  /\ UNCHANGED cliVars
  /\ UNCHANGED replaced

\* The tsc subprocess ends with an exit code (NullCode: killed by a signal).
TscExit(p, code) ==
  /\ pc = "running"
  /\ tsc[p].st = "running"
  /\ tsc' = [tsc EXCEPT ![p] = [st |-> "exited", code |-> code]]
  /\ out' = Quiet
  /\ UNCHANGED << pc, exitCode, argsLength, watchModeEnv, file,
                  currentHtmlContent, listening, clients, conn,
                  markdownWatcher, sourceWatcher, mdPending, srcPending,
                  isRebuilding >>
  /\ UNCHANGED stopCall
  /\ UNCHANGED cliVars
  /\ UNCHANGED replaced

(* ------------------------------ handlers ------------------------------- *)
\* An exception that leaves a chokidar listener is an uncaught exception or
\* an unhandled rejection, depending on the chokidar and Node versions: the
\* process terminates or goes on.
AfterWatcherThrow == {"running", "crashed"}

\* notifyReload() before onChange(): the writes are made while the cell
\* still holds the previous render
CellAtNotifyBeforeOnChange(old, new) == old

\* The change handler calls onChange() and then notifyReload(): the cell
\* already holds the new value when the writes are made.
CellAtNotify(old, new) == new

\* a change handler that takes a whole burst as one event
HandleMarkdownChangeDrainingBurst ==
  /\ pc = "running"
  /\ mdPending > 0
  /\ mdPending' = 0
  /\ \E thr \in SUBSET Range(clients) :
       LET new == loadMarkdown(file)
           r == notifyReload(clients, thr,
                             CellAtNotify(currentHtmlContent, new))
       IN /\ currentHtmlContent' = new
          /\ out' = Emit(r, << FILE_CHANGED_PREFIX >> \o loadMarkdownLog(file), 0)
          /\ IF r.threw # {}
               THEN /\ pc' \in AfterWatcherThrow
                    /\ exitCode' = IF pc' = "crashed" THEN 1 ELSE exitCode
               ELSE UNCHANGED << pc, exitCode >>
  /\ UNCHANGED << argsLength, watchModeEnv, file, listening, clients, conn,
                  markdownWatcher, sourceWatcher, srcPending, isRebuilding,
                  tsc >>
  /\ UNCHANGED stopCall
  /\ UNCHANGED cliVars
  /\ UNCHANGED replaced

\* markdownWatcher.on("change"): onChange() assigns loadMarkdown(path) to
\* currentHtmlContent, then clientManager.notifyReload().  thr is the set of
\* registered Response objects whose write() throws during this call.
HandleMarkdownChange ==
  /\ pc = "running"
  /\ mdPending > 0
  /\ mdPending' = mdPending - 1
  /\ \E thr \in SUBSET Range(clients) :
       LET new == loadMarkdown(file)
           r == notifyReload(clients, thr,
                             CellAtNotify(currentHtmlContent, new))
       IN /\ currentHtmlContent' = new
          /\ out' = Emit(r, << FILE_CHANGED_PREFIX >> \o loadMarkdownLog(file), 0)
          /\ IF r.threw # {}
               THEN /\ pc' \in AfterWatcherThrow
                    /\ exitCode' = IF pc' = "crashed" THEN 1 ELSE exitCode
               ELSE UNCHANGED << pc, exitCode >>
  /\ UNCHANGED << argsLength, watchModeEnv, file, listening, clients, conn,
                  markdownWatcher, sourceWatcher, srcPending, isRebuilding,
                  tsc >>
  /\ UNCHANGED stopCall
  /\ UNCHANGED cliVars
  /\ UNCHANGED replaced

\* sourceWatcher.on("change"): only .ts and .js paths call rebuild().
\* rebuild() returns at once while isRebuilding; otherwise it sets the flag
\* and spawns `npx tsc`.  The spawn either starts the subprocess or fails to
\* start it, in which case the child emits 'error' on the next tick.
HandleSourceChange ==
  /\ pc = "running"
  /\ srcPending # << >>
  /\ srcPending' = Tail(srcPending)
  /\ LET path == Head(srcPending)
     IN IF EndsWith(path, <<".", "t", "s">>) \/ EndsWith(path, <<".", "j", "s">>)
          THEN IF RebuildSkipped(isRebuilding)
                 THEN /\ out' = [Quiet EXCEPT !.log =
                                   << SOURCE_CHANGED_PREFIX, REBUILD_IN_PROGRESS >>]
                      /\ UNCHANGED << isRebuilding, tsc >>
                 ELSE /\ isRebuilding' = TRUE
                      /\ out' = [Quiet EXCEPT !.log =
                                   << SOURCE_CHANGED_PREFIX, REBUILDING >>]
                      /\ \E p \in ProcSlots, st \in {"running", "spawnerror"} :
                           /\ FreeSlot(p)
                           /\ tsc' = [tsc EXCEPT ![p] =
                                        [st |-> st, code |-> 0]]
          ELSE /\ out' = Quiet
               /\ UNCHANGED << isRebuilding, tsc >>
  /\ UNCHANGED << pc, exitCode, argsLength, watchModeEnv, file,
                  currentHtmlContent, listening, clients, conn,
                  markdownWatcher, sourceWatcher, mdPending >>
  /\ UNCHANGED stopCall
  /\ UNCHANGED cliVars
  /\ UNCHANGED replaced

\* tsc.on("close"): reset the flag, then onSuccess() (= notifyReload) when
\* the code is 0.  An exception that leaves this listener is an uncaught
\* exception: the process terminates.
TscClose(p) ==
  /\ pc = "running"
  /\ tsc[p].st = "exited"
  /\ isRebuilding' = FALSE
  /\ tsc' = [tsc EXCEPT ![p] = [st |-> "free", code |-> 0]]
  /\ IF CallsOnSuccess(tsc[p].code)
       THEN \E thr \in SUBSET Range(clients) :
              LET r == notifyReload(clients, thr, currentHtmlContent)
              IN /\ out' = Emit(r, << REBUILD_COMPLETE >>, 1)
                 /\ pc' = IF r.threw # {} THEN "crashed" ELSE pc
                 /\ exitCode' = IF r.threw # {} THEN 1 ELSE exitCode
       ELSE /\ out' = [Quiet EXCEPT !.log = << REBUILD_FAILED_PREFIX >>]
            /\ UNCHANGED << pc, exitCode >>
  /\ UNCHANGED << argsLength, watchModeEnv, file, currentHtmlContent,
                  listening, clients, conn, markdownWatcher, sourceWatcher,
                  mdPending, srcPending >>
  /\ UNCHANGED stopCall
  /\ UNCHANGED cliVars
  /\ UNCHANGED replaced

\* The child emits 'error' because it could not be started.  rebuild()
\* registers no 'error' listener, so the event is thrown as an uncaught
\* exception and the process terminates; isRebuilding is never reset.
TscSpawnError(p) ==
  /\ pc = "running"
  /\ tsc[p].st = "spawnerror"
  /\ tsc' = [tsc EXCEPT ![p].st = "free"]
  /\ pc' = "crashed"
  /\ exitCode' = 1
  /\ out' = Quiet
  /\ UNCHANGED << argsLength, watchModeEnv, file, currentHtmlContent,
                  listening, clients, conn, markdownWatcher, sourceWatcher,
                  mdPending, srcPending, isRebuilding >>
  /\ UNCHANGED stopCall
  /\ UNCHANGED cliVars
  /\ UNCHANGED replaced

\* a GET /events handler that reloads the markdown file for the new client
ConnectReloadingContent(c) ==
  /\ pc = "running"
  /\ listening
  /\ conn[c] = "new"
  /\ \A d \in 1..(c - 1) : conn[d] # "new"
  /\ clients' = addClient(clients, c)
  /\ conn' = [conn EXCEPT ![c] = "open"]
  /\ currentHtmlContent' = loadMarkdown(file)
  /\ out' = Quiet
  /\ UNCHANGED << pc, exitCode, argsLength, watchModeEnv, file,
                  listening, markdownWatcher,
                  sourceWatcher, mdPending, srcPending, isRebuilding, tsc >>
  /\ UNCHANGED stopCall
  /\ UNCHANGED cliVars
  /\ UNCHANGED replaced

\* GET /events: set the SSE headers, addClient(res), subscribe to the
\* request's 'close'.  Nothing is written to res.  Response objects are
\* numbered in the order they are created.
Connect(c) ==
  /\ pc = "running"
  /\ listening
  /\ conn[c] = "new"
  /\ \A d \in 1..(c - 1) : conn[d] # "new"
  /\ clients' = addClient(clients, c)
  /\ conn' = [conn EXCEPT ![c] = "open"]
  /\ out' = Quiet
  /\ UNCHANGED << pc, exitCode, argsLength, watchModeEnv, file,
                  currentHtmlContent, listening, markdownWatcher,
                  sourceWatcher, mdPending, srcPending, isRebuilding, tsc >>
  /\ UNCHANGED stopCall
  /\ UNCHANGED cliVars
  /\ UNCHANGED replaced

\* req.on("close"): removeClient(res).
HandleClose(c) ==
  /\ pc = "running"
  /\ conn[c] = "closing"
  /\ clients' = removeClient(clients, c)
  /\ conn' = [conn EXCEPT ![c] = "closed"]
  /\ out' = Quiet
  /\ UNCHANGED << pc, exitCode, argsLength, watchModeEnv, file,
                  currentHtmlContent, listening, markdownWatcher,
                  sourceWatcher, mdPending, srcPending, isRebuilding, tsc >>
  /\ UNCHANGED stopCall
  /\ UNCHANGED cliVars
  /\ UNCHANGED replaced

\* a GET / handler that answers only while no rebuild is running
GetRootUnlessRebuilding ==
  /\ pc = "running"
  /\ listening
  /\ ~isRebuilding
  /\ out' = [Quiet EXCEPT
               !.response = << generateHtmlTemplate(currentHtmlContent) >>]
  /\ UNCHANGED << pc, exitCode, argsLength, watchModeEnv, file,
                  currentHtmlContent, listening, clients, conn,
                  markdownWatcher, sourceWatcher, mdPending, srcPending,
                  isRebuilding, tsc >>
  /\ UNCHANGED stopCall
  /\ UNCHANGED cliVars
  /\ UNCHANGED replaced

\* app.get("/"): res.send(generateHtmlTemplate(currentHtmlContent))
GetRoot ==
  /\ pc = "running"
  /\ listening
  /\ out' = [Quiet EXCEPT
               !.response = << generateHtmlTemplate(currentHtmlContent) >>]
  /\ UNCHANGED << pc, exitCode, argsLength, watchModeEnv, file,
                  currentHtmlContent, listening, clients, conn,
                  markdownWatcher, sourceWatcher, mdPending, srcPending,
                  isRebuilding, tsc >>
  /\ UNCHANGED stopCall
  /\ UNCHANGED cliVars
  /\ UNCHANGED replaced

(* --------------------------- specification ----------------------------- *)
Next ==
  \/ Main
  \/ GetRoot
  \/ EditFile
  \/ SetReadable
  \/ \E path \in SourcePaths : TouchSource(path)
  \/ \E c \in Channels : Connect(c)
  \/ \E c \in Channels : Disconnect(c)
  \/ \E c \in Channels : HandleClose(c)
  \/ HandleMarkdownChange
  \/ HandleSourceChange
  \/ \E p \in ProcSlots, code \in ExitCodes : TscExit(p, code)
  \/ \E p \in ProcSlots : TscClose(p)
  \/ \E p \in ProcSlots : TscSpawnError(p)

Spec == Init /\ [][Next]_vars

TypeOK ==
  /\ pc \in {"init", "running", "exited", "crashed"}
  /\ isRebuilding \in BOOLEAN
  /\ mdPending \in 0..MaxEdits
  /\ Len(srcPending) <= MaxSourcePending

(* ------------------ ClientManager called directly ---------------------- *)
\* The exported class driven by arbitrary calls of its methods, on any
\* Response object and in any order.  conn[c] keeps the caller's view of c:
\* "new" before any call, "open" when the latest call on c was addClient,
\* "closed" when it was removeClient.  Everything else stays as constructed.
ClientManagerInit ==
  /\ pc = "init"
  /\ exitCode = -1
  /\ argsLength = 1
  /\ watchModeEnv = "undefined"
  /\ file = [readable |-> TRUE, content |-> 0]
  /\ currentHtmlContent = Undefined
  /\ listening = FALSE
  /\ clients = << >>
  /\ conn = [c \in Channels |-> "new"]
  /\ out = Quiet
  /\ markdownWatcher = "undefined"
  /\ sourceWatcher = "undefined"
  /\ mdPending = 0
  /\ srcPending = << >>
  /\ isRebuilding = FALSE
  /\ tsc = [p \in ProcSlots |-> [st |-> "free", code |-> 0]]
  /\ stopCall = "none"
  /\ cwd = DefaultCwd
  /\ arg0 = DefaultArg
  /\ markdownFilePath = Undefined
  /\ replaced = NoneReplaced

CallAddClient(c) ==
  /\ Len(clients) < MaxRegistrations
  /\ clients' = addClient(clients, c)
  /\ conn' = [conn EXCEPT ![c] = "open"]
  /\ out' = Quiet
  /\ UNCHANGED << pc, exitCode, argsLength, watchModeEnv, file,
                  currentHtmlContent, listening, markdownWatcher,
                  sourceWatcher, mdPending, srcPending, isRebuilding, tsc >>
  /\ UNCHANGED stopCall
  /\ UNCHANGED cliVars
  /\ UNCHANGED replaced

CallRemoveClient(c) ==
  /\ clients' = removeClient(clients, c)
  /\ conn' = [conn EXCEPT ![c] = "closed"]
  /\ out' = Quiet
  /\ UNCHANGED << pc, exitCode, argsLength, watchModeEnv, file,
                  currentHtmlContent, listening, markdownWatcher,
                  sourceWatcher, mdPending, srcPending, isRebuilding, tsc >>
  /\ UNCHANGED stopCall
  /\ UNCHANGED cliVars
  /\ UNCHANGED replaced

\* notifyReload() called directly; its "Notifying n connected client(s)"
\* line is not recorded in out.log, here as in the handlers
CallNotifyReload ==
  /\ \E thr \in SUBSET Range(clients) :
       out' = Emit(notifyReload(clients, thr, currentHtmlContent), << >>, 0)
  /\ UNCHANGED << pc, exitCode, argsLength, watchModeEnv, file,
                  currentHtmlContent, listening, clients, conn,
                  markdownWatcher, sourceWatcher, mdPending, srcPending,
                  isRebuilding, tsc >>
  /\ UNCHANGED stopCall
  /\ UNCHANGED cliVars
  /\ UNCHANGED replaced

ClientManagerNext ==
  \/ \E c \in Channels : CallAddClient(c)
  \/ \E c \in Channels : CallRemoveClient(c)
  \/ CallNotifyReload

ClientManagerSpec == ClientManagerInit /\ [][ClientManagerNext]_vars

(* --------------------------- code renderer ----------------------------- *)
\* language tags of fenced code blocks ("undefined" = the block has no tag)
Languages ==
  { "mermaid", "Mermaid", "javascript", "python", "unknownlang123",
    "undefined" }

\* tags for which hljs.getLanguage returns a language definition
HljsLanguages == { "javascript", "python" }

Codes == { "graph TD; A-->B", "x = 42" }

\* a fenced code block: its tag, its text, and whether hljs.highlight throws
\* on it
CodeBlocks ==
  [language : Languages, code : Codes, highlightThrows : BOOLEAN]

\* a comparison that ignores the case of the tag
IsMermaidAnyCase(language) == language \in {"mermaid", "Mermaid"}

\* `language === "mermaid"`
IsMermaid(language) == language = "mermaid"

\* `language && hljs.getLanguage(language)`
IsHighlightable(language) ==
  language # "undefined" /\ language \in HljsLanguages

\* marked's own renderer.code: <pre><code>, with class language-X when the
\* block has a tag, around the escaped text
originalCodeRenderer(code, language) ==
  [el |-> "pre>code",
   class |-> IF language # "undefined" THEN << "language-", language >>
                                       ELSE << >>,
   inner |-> [how |-> "escaped", text |-> code]]

\* the renderer.code installed by createCodeRenderer
codeRenderer(b) ==
  IF IsMermaid(b.language)
    THEN [el |-> "div", class |-> << "mermaid" >>,
          inner |-> [how |-> "raw", text |-> b.code]]
  ELSE IF IsHighlightable(b.language) /\ ~b.highlightThrows
    THEN [el |-> "pre>code",
          class |-> << "hljs", "language-", b.language >>,
          inner |-> [how |-> "highlighted", text |-> b.code]]
  ELSE originalCodeRenderer(b.code, b.language)

\* console.error("Highlight error:", err) in the catch block
codeRendererLog(b) ==
  IF ~IsMermaid(b.language) /\ IsHighlightable(b.language)
       /\ b.highlightThrows
    THEN << "Highlight error:" >> ELSE << >>

\* marked.parse on a document made of fenced code blocks: the renderer is
\* called once per block, in document order
RECURSIVE parseCodeBlocks(_)
parseCodeBlocks(blocks) ==
  IF blocks = << >> THEN << >>
  ELSE << codeRenderer(Head(blocks)) >> \o parseCodeBlocks(Tail(blocks))

RECURSIVE parseCodeBlocksLog(_)
parseCodeBlocksLog(blocks) ==
  IF blocks = << >> THEN << >>
  ELSE codeRendererLog(Head(blocks)) \o parseCodeBlocksLog(Tail(blocks))

RECURSIVE SeqsUpTo(_, _)
SeqsUpTo(S, n) ==
  IF n = 0 THEN { << >> }
  ELSE LET shorter == SeqsUpTo(S, n - 1)
       IN shorter \cup
          { Append(q, x) : q \in { r \in shorter : Len(r) = n - 1 }, x \in S }

\* The renderer applied to every document of at most MaxBlocks code blocks:
\* the file holds the document, the cell receives its rendering.
RenderInit ==
  /\ pc = "init"
  /\ exitCode = -1
  /\ argsLength = 1
  /\ watchModeEnv = "undefined"
  /\ file \in [readable : {TRUE}, content : SeqsUpTo(CodeBlocks, MaxBlocks)]
  /\ currentHtmlContent = Undefined
  /\ listening = FALSE
  /\ clients = << >>
  /\ conn = [c \in Channels |-> "new"]
  /\ out = Quiet
  /\ markdownWatcher = "undefined"
  /\ sourceWatcher = "undefined"
  /\ mdPending = 0
  /\ srcPending = << >>
  /\ isRebuilding = FALSE
  /\ tsc = [p \in ProcSlots |-> [st |-> "free", code |-> 0]]
  /\ stopCall = "none"
  /\ cwd = DefaultCwd
  /\ arg0 = DefaultArg
  /\ markdownFilePath = Undefined
  /\ replaced = NoneReplaced

RenderDocument ==
  /\ currentHtmlContent = Undefined
  /\ currentHtmlContent' = [tag |-> "html", of |-> parseCodeBlocks(file.content)]
  /\ out' = [Quiet EXCEPT !.log = parseCodeBlocksLog(file.content)]
  /\ UNCHANGED << pc, exitCode, argsLength, watchModeEnv, file, listening,
                  clients, conn, markdownWatcher, sourceWatcher, mdPending,
                  srcPending, isRebuilding, tsc >>
  /\ UNCHANGED stopCall
  /\ UNCHANGED cliVars
  /\ UNCHANGED replaced

RenderNext == RenderDocument

RenderSpec == RenderInit /\ [][RenderNext]_vars

(* ------------------------------ HTTP layer ----------------------------- *)
\* SECURITY_HEADERS.CONTENT_SECURITY_POLICY: the directives that are joined
\* with "; ", each a name and its source list
CONTENT_SECURITY_POLICY ==
  << << "default-src", << "'self'" >> >>,
     << "script-src", << "'self'" >> >>,
     << "style-src", << "'self'", "'unsafe-inline'" >> >>,
     << "img-src", << "*", "data:" >> >>,
     << "connect-src", << "'self'" >> >>,
     << "font-src", << "'self'" >> >>,
     << "object-src", << "'none'" >> >>,
     << "base-uri", << "'self'" >> >>,
     << "form-action", << "'self'" >> >>,
     << "frame-ancestors", << "'none'" >> >> >>

X_CONTENT_TYPE_OPTIONS == "nosniff"
X_FRAME_OPTIONS == "DENY"
X_XSS_PROTECTION == "1; mode=block"
REFERRER_POLICY == "strict-origin-when-cross-origin"

HeaderNames ==
  { "Content-Security-Policy", "X-Content-Type-Options", "X-Frame-Options",
    "X-XSS-Protection", "Referrer-Policy", "Content-Type", "Cache-Control",
    "Connection" }

\* a Response on which no header has been set
NoHeaders ==
  [n \in HeaderNames |->
     IF n = "Content-Security-Policy" THEN << >> ELSE ""]

\* res.setHeader(name, value)
setHeader(h, name, value) == [h EXCEPT ![name] = value]

\* securityHeadersMiddleware: five setHeader calls, then next()
securityHeadersMiddleware(h) ==
  setHeader(
    setHeader(
      setHeader(
        setHeader(
          setHeader(h, "Content-Security-Policy", CONTENT_SECURITY_POLICY),
          "X-Content-Type-Options", X_CONTENT_TYPE_OPTIONS),
        "X-Frame-Options", X_FRAME_OPTIONS),
      "X-XSS-Protection", X_XSS_PROTECTION),
    "Referrer-Policy", REFERRER_POLICY)

\* the three headers the /events route sets
sseHeaders(h) ==
  setHeader(
    setHeader(setHeader(h, "Content-Type", "text/event-stream"),
              "Cache-Control", "no-cache"),
    "Connection", "keep-alive")

\* files the static handlers can serve, by mount ("public" is mounted at /)
StaticFiles ==
  [ public |-> { "/mermaid-init.js" },
    highlight |-> { "/vendor/highlight.js/styles/github.min.css" },
    mermaid |-> { "/vendor/mermaid/dist/mermaid.min.js" },
    svgpanzoom |-> { "/vendor/svg-pan-zoom/dist/svg-pan-zoom.min.js" } ]

Urls ==
  { "/", "/events", "/mermaid-init.js",
    "/vendor/highlight.js/styles/github.min.css",
    "/vendor/mermaid/dist/mermaid.min.js",
    "/vendor/svg-pan-zoom/dist/svg-pan-zoom.min.js",
    "/missing.js" }

Requests == [method : {"GET", "POST"}, url : Urls]

\* a stack in which the static handlers are registered before the security
\* middleware
AppStackStaticFirst ==
  << "static:public", "static:highlight", "static:mermaid",
     "static:svgpanzoom", "securityHeaders", "route:/", "route:/events" >>

\* the layers of the express app, in the order configureExpressApp and
\* setupRoutes register them
AppStack ==
  << "securityHeaders", "static:public", "static:highlight",
     "static:mermaid", "static:svgpanzoom", "route:/", "route:/events" >>

\* the static file a layer serves for the request, if any: express.static
\* answers GET (and HEAD) requests for files that exist under its mount and
\* passes every other request on
StaticHit(layer, req) ==
  /\ req.method = "GET"
  /\ \/ layer = "static:public" /\ req.url \in StaticFiles.public
     \/ layer = "static:highlight" /\ req.url \in StaticFiles.highlight
     \/ layer = "static:mermaid" /\ req.url \in StaticFiles.mermaid
     \/ layer = "static:svgpanzoom" /\ req.url \in StaticFiles.svgpanzoom

\* app.get(path, ...) matches GET requests for exactly that path
RouteHit(layer, req) ==
  /\ req.method = "GET"
  /\ \/ layer = "route:/" /\ req.url = "/"
     \/ layer = "route:/events" /\ req.url = "/events"

\* The request walks the stack from layer i on with the headers set so far.
\* The result names the layer that answered, or "finalhandler" when every
\* layer passed the request on: express then answers 404 and replaces the
\* Content-Security-Policy by default-src 'none'.
RECURSIVE dispatch(_, _, _, _)
dispatch(stack, i, req, h) ==
  IF i > Len(stack)
    THEN [by |-> "finalhandler", status |-> 404,
          headers |->
            setHeader(
              setHeader(
                setHeader(h, "Content-Security-Policy",
                          << << "default-src", << "'none'" >> >> >>),
                "X-Content-Type-Options", "nosniff"),
              "Content-Type", "text/html; charset=utf-8")]
  ELSE IF stack[i] = "securityHeaders"
    THEN dispatch(stack, i + 1, req, securityHeadersMiddleware(h))
  ELSE IF StaticHit(stack[i], req)
    THEN [by |-> stack[i], status |-> 200,
          headers |-> setHeader(h, "Content-Type", "asset")]
  ELSE IF RouteHit(stack[i], req) /\ stack[i] = "route:/"
    THEN [by |-> stack[i], status |-> 200,
          headers |-> setHeader(h, "Content-Type", "text/html; charset=utf-8")]
  ELSE IF RouteHit(stack[i], req)
    THEN [by |-> stack[i], status |-> 200, headers |-> sseHeaders(h)]
  ELSE dispatch(stack, i + 1, req, h)

\* The running server seen from the network: requests of any kind arrive,
\* event streams are opened and closed.  The content file is not edited.
HttpInit ==
  /\ pc = "running"
  /\ exitCode = -1
  /\ argsLength = 1
  /\ watchModeEnv = "undefined"
  /\ file \in [readable : BOOLEAN, content : {0}]
  /\ currentHtmlContent = loadMarkdown(file)
  /\ listening = TRUE
  /\ clients = << >>
  /\ conn = [c \in Channels |-> "new"]
  /\ out = Quiet
  /\ markdownWatcher = "watching"
  /\ sourceWatcher = "undefined"
  /\ mdPending = 0
  /\ srcPending = << >>
  /\ isRebuilding = FALSE
  /\ tsc = [p \in ProcSlots |-> [st |-> "free", code |-> 0]]
  /\ stopCall = "none"
  /\ cwd = DefaultCwd
  /\ arg0 = DefaultArg
  /\ markdownFilePath = getMarkdownFilePath(cwd, arg0)
  /\ replaced = NoneReplaced

\* One request through the whole stack.  out.response holds the response:
\* who answered, the status, the headers and, for GET /, the document.  A
\* request answered by the /events route registers its Response object.
HttpRequest(req) ==
  /\ pc = "running"
  /\ listening
  /\ LET r == dispatch(AppStack, 1, req, NoHeaders)
     IN /\ out' = [Quiet EXCEPT !.response =
                     << [by |-> r.by, status |-> r.status,
                         headers |-> r.headers, url |-> req.url,
                         body |-> IF r.by = "route:/"
                                    THEN << generateHtmlTemplate(currentHtmlContent) >>
                                    ELSE << >>] >>]
        /\ IF r.by = "route:/events"
             THEN \E c \in Channels :
                    /\ conn[c] = "new"
                    /\ \A d \in 1..(c - 1) : conn[d] # "new"
                    /\ clients' = addClient(clients, c)
                    /\ conn' = [conn EXCEPT ![c] = "open"]
             ELSE UNCHANGED << clients, conn >>
  /\ UNCHANGED << pc, exitCode, argsLength, watchModeEnv, file,
                  currentHtmlContent, listening, markdownWatcher,
                  sourceWatcher, mdPending, srcPending, isRebuilding, tsc >>
  /\ UNCHANGED stopCall
  /\ UNCHANGED cliVars
  /\ UNCHANGED replaced

HttpNext ==
  \/ \E req \in Requests : HttpRequest(req)
  \/ \E c \in Channels : Disconnect(c)
  \/ \E c \in Channels : HandleClose(c)

HttpSpec == HttpInit /\ [][HttpNext]_vars

(* -------------------- FileWatcher called directly ---------------------- *)
\* The exported FileWatcher class over a ClientManager that already holds
\* some channels: each watch method is called at most once and not after
\* stopWatching(), which can be called at any time, also more than once.
FileWatcherInit ==
  /\ pc = "running"
  /\ exitCode = -1
  /\ argsLength = 1
  /\ watchModeEnv = "undefined"
  /\ file \in [readable : BOOLEAN, content : {0}]
  /\ currentHtmlContent = loadMarkdown(file)
  /\ listening = FALSE
  /\ clients \in { << >>, << 1 >>, << 1, 2 >> }
  /\ conn = [c \in Channels |-> IF c \in Range(clients) THEN "open" ELSE "new"]
  /\ out = Quiet
  /\ markdownWatcher = "undefined"
  /\ sourceWatcher = "undefined"
  /\ mdPending = 0
  /\ srcPending = << >>
  /\ isRebuilding = FALSE
  /\ tsc = [p \in ProcSlots |-> [st |-> "free", code |-> 0]]
  /\ stopCall = "none"
  /\ cwd = DefaultCwd
  /\ arg0 = DefaultArg
  /\ markdownFilePath = getMarkdownFilePath(cwd, arg0)
  /\ replaced = NoneReplaced

\* watchMarkdownFile(filePath, onChange)
CallWatchMarkdownFile ==
  /\ pc = "running"
  /\ stopCall = "none"
  /\ markdownWatcher = "undefined"
  /\ markdownWatcher' = "watching"
  /\ mdPending' = ListenerRuns(InitialEvents(IGNORE_INITIAL), "change")
  /\ out' = Quiet
  /\ UNCHANGED << pc, exitCode, argsLength, watchModeEnv, file,
                  currentHtmlContent, listening, clients, conn,
                  sourceWatcher, srcPending, isRebuilding, tsc, stopCall >>
  /\ UNCHANGED cliVars
  /\ UNCHANGED replaced

\* watchSourceCode(srcPath, projectRoot)
CallWatchSourceCode ==
  /\ pc = "running"
  /\ stopCall = "none"
  /\ sourceWatcher = "undefined"
  /\ sourceWatcher' = "watching"
  /\ out' = [Quiet EXCEPT !.log = << WATCH_MODE_ENABLED >>]
  /\ UNCHANGED << pc, exitCode, argsLength, watchModeEnv, file,
                  currentHtmlContent, listening, clients, conn,
                  markdownWatcher, mdPending, srcPending, isRebuilding, tsc,
                  stopCall >>
  /\ UNCHANGED cliVars
  /\ UNCHANGED replaced

\* FSWatcher.close(): marks the watcher closed and removes its listeners at
\* once, so no event is delivered any more; the returned promise resolves
\* when the underlying handles are released.  Closing a closed watcher
\* returns the same promise.
CloseWatcher(w) == IF w = "watching" THEN "closing" ELSE w

\* a stopWatching() that also ends the rebuild subprocess and resets the
\* coordinator
CallStopWatchingKillingRebuild ==
  /\ pc = "running"
  /\ stopCall \in {"none", "returned"}
  /\ IF markdownWatcher # "undefined"
       THEN /\ markdownWatcher' = CloseWatcher(markdownWatcher)
            /\ mdPending' = 0
            /\ stopCall' = "awaitMarkdown"
            /\ UNCHANGED << sourceWatcher, srcPending >>
       ELSE IF sourceWatcher # "undefined"
       THEN /\ sourceWatcher' = CloseWatcher(sourceWatcher)
            /\ srcPending' = << >>
            /\ stopCall' = "awaitSource"
            /\ UNCHANGED << markdownWatcher, mdPending >>
       ELSE /\ stopCall' = "returned"
            /\ UNCHANGED << markdownWatcher, mdPending, sourceWatcher,
                            srcPending >>
  /\ out' = Quiet
  /\ isRebuilding' = FALSE
  /\ tsc' = [p \in ProcSlots |-> [st |-> "free", code |-> 0]]
  /\ UNCHANGED << pc, exitCode, argsLength, watchModeEnv, file,
                  currentHtmlContent, listening, clients, conn >>
  /\ UNCHANGED cliVars
  /\ UNCHANGED replaced

\* stopWatching() up to its first await, or to its return when no watcher
\* was started
CallStopWatching ==
  /\ pc = "running"
  /\ stopCall \in {"none", "returned"}
  /\ IF markdownWatcher # "undefined"
       THEN /\ markdownWatcher' = CloseWatcher(markdownWatcher)
            /\ mdPending' = 0
            /\ stopCall' = "awaitMarkdown"
            /\ UNCHANGED << sourceWatcher, srcPending >>
       ELSE IF sourceWatcher # "undefined"
       THEN /\ sourceWatcher' = CloseWatcher(sourceWatcher)
            /\ srcPending' = << >>
            /\ stopCall' = "awaitSource"
            /\ UNCHANGED << markdownWatcher, mdPending >>
       ELSE /\ stopCall' = "returned"
            /\ UNCHANGED << markdownWatcher, mdPending, sourceWatcher,
                            srcPending >>
  /\ out' = Quiet
  /\ UNCHANGED << pc, exitCode, argsLength, watchModeEnv, file,
                  currentHtmlContent, listening, clients, conn, isRebuilding,
                  tsc >>
  /\ UNCHANGED cliVars
  /\ UNCHANGED replaced

\* a stopWatching() that calls sourceWatcher.close() without awaiting it
AfterMarkdownCloseNoAwait ==
  /\ pc = "running"
  /\ stopCall = "awaitMarkdown"
  /\ markdownWatcher' = "closed"
  /\ IF sourceWatcher # "undefined"
       THEN /\ sourceWatcher' = CloseWatcher(sourceWatcher)
            /\ srcPending' = << >>
       ELSE UNCHANGED << sourceWatcher, srcPending >>
  /\ stopCall' = "returned"
  /\ out' = Quiet
  /\ UNCHANGED << pc, exitCode, argsLength, watchModeEnv, file,
                  currentHtmlContent, listening, clients, conn, mdPending,
                  isRebuilding, tsc >>
  /\ UNCHANGED cliVars
  /\ UNCHANGED replaced

\* the close of the markdown watcher has completed: stopWatching() resumes
\* after `await this.markdownWatcher.close()` and runs to its second await
\* or to its return
AfterMarkdownClose ==
  /\ pc = "running"
  /\ stopCall = "awaitMarkdown"
  /\ markdownWatcher' = "closed"
  /\ IF sourceWatcher # "undefined"
       THEN /\ sourceWatcher' = CloseWatcher(sourceWatcher)
            /\ srcPending' = << >>
            /\ stopCall' = "awaitSource"
       ELSE /\ stopCall' = "returned"
            /\ UNCHANGED << sourceWatcher, srcPending >>
  /\ out' = Quiet
  /\ UNCHANGED << pc, exitCode, argsLength, watchModeEnv, file,
                  currentHtmlContent, listening, clients, conn, mdPending,
                  isRebuilding, tsc >>
  /\ UNCHANGED cliVars
  /\ UNCHANGED replaced

\* the close of the source watcher has completed: stopWatching() resumes
\* after `await this.sourceWatcher.close()` and returns
AfterSourceClose ==
  /\ pc = "running"
  /\ stopCall = "awaitSource"
  /\ sourceWatcher' = "closed"
  /\ stopCall' = "returned"
  /\ out' = Quiet
  /\ UNCHANGED << pc, exitCode, argsLength, watchModeEnv, file,
                  currentHtmlContent, listening, clients, conn,
                  markdownWatcher, mdPending, srcPending, isRebuilding, tsc >>
  /\ UNCHANGED cliVars
  /\ UNCHANGED replaced

FileWatcherNext ==
  \/ CallWatchMarkdownFile
  \/ CallWatchSourceCode
  \/ CallStopWatching
  \/ AfterMarkdownClose
  \/ AfterSourceClose
  \/ EditFile
  \/ \E path \in SourcePaths : TouchSource(path)
  \/ HandleMarkdownChange
  \/ HandleSourceChange
  \/ \E p \in ProcSlots, code \in ExitCodes : TscExit(p, code)
  \/ \E p \in ProcSlots : TscClose(p)
  \/ \E p \in ProcSlots : TscSpawnError(p)

FileWatcherSpec == FileWatcherInit /\ [][FileWatcherNext]_vars

(* --------------------------- the command line -------------------------- *)
\* Segments a path on the command line is made of
Segments == { "..", ".", "d", "t.md" }

\* process.cwd(): absolute and normalized
Cwds ==
  { [abs |-> TRUE, segs |-> q] : q \in { << >>, << "w" >>, << "w", "d" >> } }

\* the first command line argument: relative or absolute, not normalized
Args == [abs : BOOLEAN, segs : SeqsUpTo(Segments, MaxSegments)]

\* The program started from any directory with any such argument, or none.
CliInit ==
  /\ pc = "init"
  /\ exitCode = -1
  /\ argsLength \in {0, 1}
  /\ watchModeEnv = "true"
  /\ file \in [readable : BOOLEAN, content : {0}]
  /\ currentHtmlContent = Undefined
  /\ listening = FALSE
  /\ clients = << >>
  /\ conn = [c \in Channels |-> "new"]
  /\ out = Quiet
  /\ markdownWatcher = "undefined"
  /\ sourceWatcher = "undefined"
  /\ mdPending = 0
  /\ srcPending = << >>
  /\ isRebuilding = FALSE
  /\ tsc = [p \in ProcSlots |-> [st |-> "free", code |-> 0]]
  /\ stopCall = "none"
  /\ cwd \in Cwds
  /\ arg0 \in IF argsLength = 0 THEN { Undefined } ELSE Args
  /\ markdownFilePath = Undefined
  /\ replaced = NoneReplaced

CliNext == Main

CliSpec == CliInit /\ [][CliNext]_vars

(* ------------------ watch methods called repeatedly -------------------- *)
\* watchMarkdownFile() on a FileWatcher whose markdownWatcher field holds a
\* watcher: a new watcher is created and assigned to the field; the one it
\* held is not closed and nothing refers to it any more.
CallWatchMarkdownFileAgain ==
  /\ pc = "running"
  /\ stopCall = "none"
  /\ markdownWatcher = "watching"
  /\ replaced.markdown < MaxRewatch
  /\ replaced' = [replaced EXCEPT !.markdown = @ + 1]
  /\ mdPending' =
       mdPending + ListenerRuns(InitialEvents(IGNORE_INITIAL), "change")
  /\ out' = Quiet
  /\ UNCHANGED << pc, exitCode, argsLength, watchModeEnv, file,
                  currentHtmlContent, listening, clients, conn,
                  markdownWatcher, sourceWatcher, srcPending, isRebuilding,
                  tsc, stopCall >>
  /\ UNCHANGED cliVars

\* watchSourceCode() on a FileWatcher whose sourceWatcher field holds a
\* watcher: likewise
CallWatchSourceCodeAgain ==
  /\ pc = "running"
  /\ stopCall = "none"
  /\ sourceWatcher = "watching"
  /\ replaced.source < MaxRewatch
  /\ replaced' = [replaced EXCEPT !.source = @ + 1]
  /\ out' = [Quiet EXCEPT !.log = << WATCH_MODE_ENABLED >>]
  /\ UNCHANGED << pc, exitCode, argsLength, watchModeEnv, file,
                  currentHtmlContent, listening, clients, conn,
                  markdownWatcher, sourceWatcher, mdPending, srcPending,
                  isRebuilding, tsc, stopCall >>
  /\ UNCHANGED cliVars

\* The markdown file is written after stopWatching() closed the watcher of
\* the field: an overwritten watcher still has its handles and its listener
\* and raises 'change'.
ReplacedMarkdownWatcherChange ==
  /\ pc = "running"
  /\ replaced.markdown > 0
  /\ markdownWatcher \in {"closing", "closed"}
  /\ mdPending < MaxBurst
  /\ mdPending' = mdPending + 1
  /\ out' = Quiet
  /\ UNCHANGED << pc, exitCode, argsLength, watchModeEnv, file,
                  currentHtmlContent, listening, clients, conn,
                  markdownWatcher, sourceWatcher, srcPending, isRebuilding,
                  tsc, stopCall >>
  /\ UNCHANGED cliVars
  /\ UNCHANGED replaced

\* A source file is modified after stopWatching() closed the watcher of the
\* field: an overwritten source watcher raises 'change' for it.
ReplacedSourceWatcherChange(path) ==
  /\ pc = "running"
  /\ replaced.source > 0
  /\ sourceWatcher \in {"closing", "closed"}
  /\ ~Ignored(path)
  /\ Len(srcPending) < MaxSourcePending
  /\ srcPending' = Append(srcPending, path)
  /\ out' = Quiet
  /\ UNCHANGED << pc, exitCode, argsLength, watchModeEnv, file,
                  currentHtmlContent, listening, clients, conn,
                  markdownWatcher, sourceWatcher, mdPending, isRebuilding,
                  tsc, stopCall >>
  /\ UNCHANGED cliVars
  /\ UNCHANGED replaced

RewatchNext ==
  \/ FileWatcherNext
  \/ CallWatchMarkdownFileAgain
  \/ CallWatchSourceCodeAgain
  \/ ReplacedMarkdownWatcherChange
  \/ \E path \in SourcePaths : ReplacedSourceWatcherChange(path)

RewatchSpec == FileWatcherInit /\ [][RewatchNext]_vars

(* ----------------------- bursts of content changes --------------------- *)
\* The server after startup without watch mode: the markdown watcher is
\* subscribed, nothing is pending.
BurstInit ==
  /\ pc = "running"
  /\ exitCode = -1
  /\ argsLength = 1
  /\ watchModeEnv = "undefined"
  /\ file \in [readable : BOOLEAN, content : {0}]
  /\ currentHtmlContent = loadMarkdown(file)
  /\ listening = TRUE
  /\ clients = << >>
  /\ conn = [c \in Channels |-> "new"]
  /\ out = Quiet
  /\ markdownWatcher = "watching"
  /\ sourceWatcher = "undefined"
  /\ mdPending = 0
  /\ srcPending = << >>
  /\ isRebuilding = FALSE
  /\ tsc = [p \in ProcSlots |-> [st |-> "free", code |-> 0]]
  /\ stopCall = "none"
  /\ cwd = DefaultCwd
  /\ arg0 = DefaultArg
  /\ markdownFilePath = getMarkdownFilePath(cwd, arg0)
  /\ replaced = NoneReplaced

\* The markdown file is saved again with the content it has: chokidar raises
\* 'change' as for any other write.
TouchFile ==
  /\ pc = "running"
  /\ markdownWatcher = "watching"
  /\ mdPending < MaxBurst
  /\ mdPending' = mdPending + 1
  /\ out' = Quiet
  /\ UNCHANGED << pc, exitCode, argsLength, watchModeEnv, file,
                  currentHtmlContent, listening, clients, conn,
                  markdownWatcher, sourceWatcher, srcPending, isRebuilding,
                  tsc >>
  /\ UNCHANGED stopCall
  /\ UNCHANGED cliVars
  /\ UNCHANGED replaced

BurstNext ==
  \/ TouchFile
  \/ EditFile
  \/ SetReadable
  \/ HandleMarkdownChange
  \/ \E c \in Channels : Connect(c)
  \/ \E c \in Channels : Disconnect(c)
  \/ \E c \in Channels : HandleClose(c)

BurstSpec == BurstInit /\ [][BurstNext]_vars

(* ------------------------------- claims -------------------------------- *)
\* subprocesses that have been started and whose 'close' has not been handled
InFlight == { p \in ProcSlots : tsc[p].st \in {"running", "exited"} }

\* the step is a run of the markdown 'change' handler
MarkdownChangeStep == mdPending' < mdPending

\* the step is a run of a 'close' handler that invoked onSuccess
OnSuccessStep == out'.calls > 0

\* the step is a run of the 'close' handler of subprocess p
CloseStep(p) == tsc[p].st = "exited" /\ tsc'[p].st # "exited"

\* the channels a step wrote to
WrittenTo(o) == { o.writes[i].to : i \in 1..Len(o.writes) }

\* C1: in every reachable state at most one rebuild subprocess is in flight,
\* whatever the interleaving of source-change events and completions.
C1_AtMostOneRebuild == Cardinality(InFlight) <= 1

\* a rebuild() call has just been refused while a subprocess is in flight
C1_Witness ==
  /\ out.log = << SOURCE_CHANGED_PREFIX, REBUILD_IN_PROGRESS >>
  /\ Cardinality(InFlight) = 1

\* C2: every Idle->Running transition is followed by a Running->Idle
\* transition whatever the outcome: once no outcome of a started rebuild is
\* outstanding (exit, close or failure to start), the coordinator is Idle.
C2_RunningAlwaysReturnsToIdle ==
  (\A p \in ProcSlots : tsc[p].st = "free") => ~isRebuilding

\* C3: the close handler of an accepted rebuild invokes onSuccess exactly
\* once when the subprocess ended with exit code 0 and not at all for any
\* other outcome (non-zero code, no exit code); no other step invokes it.
C3_OnSuccessIffExitZero ==
  [][ /\ \A p \in ProcSlots :
           CloseStep(p) => out'.calls = (IF tsc[p].code = 0 THEN 1 ELSE 0)
      /\ (\A p \in ProcSlots : ~CloseStep(p)) => out'.calls = 0
    ]_vars

\* a rebuild has just completed with code 0 and its onSuccess has run once
C3_Witness ==
  /\ out.calls = 1
  /\ out.log = << REBUILD_COMPLETE >>
  /\ ~isRebuilding

\* C4: notifyReload() delivers the message to every channel registered at
\* call time except the one whose write throws: a throwing channel does not
\* prevent delivery to the channels after it.
C4_ThrowDoesNotStopDelivery ==
  [][ (MarkdownChangeStep \/ OnSuccessStep) =>
        \A c \in Range(clients) : c \notin out'.threw => c \in WrittenTo(out')
    ]_vars

\* C5: for every content-file change event, each channel registered when
\* the event is handled (and whose own write does not fail) receives exactly
\* one reload message for that event.
C5_ExactlyOneReloadPerChange ==
  [][ MarkdownChangeStep =>
        \A c \in Range(clients) \ out'.threw :
          Cardinality({ i \in 1..Len(out'.writes) :
                          /\ out'.writes[i].to = c
                          /\ out'.writes[i].data = RELOAD_MESSAGE }) = 1
    ]_vars

\* C6: on a content-file change the new render is in the rendered-content
\* cell before any reload message is written: every write of the handler is
\* made while the cell holds the render of the file as the handler read it,
\* and the cell holds that render when the handler ends.
C6_RenderAssignedBeforeReload ==
  [][ MarkdownChangeStep =>
        /\ currentHtmlContent' = loadMarkdown(file)
        /\ \A i \in 1..Len(out'.writes) :
             out'.writes[i].html = loadMarkdown(file)
    ]_vars

\* a change handler has just written a reload message for an edited file
C6_Witness ==
  /\ Len(out.log) >= 1 /\ out.log[1] = FILE_CHANGED_PREFIX
  /\ out.writes # << >>
  /\ file.content >= 1
  /\ out.writes[1].html = parseMarkdown(file.content)
  /\ currentHtmlContent = parseMarkdown(file.content)

\* C7: when a change event is handled while the content file is unreadable,
\* the rendered-content cell keeps its previous value.
C7_UnreadableKeepsPreviousContent ==
  [][ (MarkdownChangeStep /\ ~file.readable) =>
        currentHtmlContent' = currentHtmlContent
    ]_vars

\* C8: a content reload attempt that fails (file unreadable when the change
\* event is handled) writes no reload message to any channel.
C8_FailedReloadNotBroadcast ==
  [][ (MarkdownChangeStep /\ ~file.readable) => out'.writes = << >> ]_vars

\* C9: if the markdown file cannot be read at startup, the process prints
\* an error and exits with a non-zero code; it never listens and never
\* starts a file watcher.
C9_UnreadableAtStartupExits ==
  [][ (pc = "init" /\ argsLength > 0 /\ ~file.readable) =>
        /\ pc' = "exited"
        /\ exitCode' > 0
        /\ out'.log # << >>
        /\ ~listening'
        /\ markdownWatcher' = "undefined"
        /\ sourceWatcher' = "undefined"
    ]_vars

\* C10: the registry holds exactly the channels of the connections that
\* were opened and whose close has not been handled, each once.
C10_RegistryIsOpenConnections ==
  /\ Range(clients) = { c \in Channels : conn[c] \in {"open", "closing"} }
  /\ Cardinality(Range(clients)) = Len(clients)

\* one connection's close has been handled while a later one is still open
C10_Witness ==
  \E c, d \in Channels :
    /\ c < d
    /\ conn[c] = "closed" /\ c \notin Range(clients)
    /\ conn[d] = "open" /\ d \in Range(clients)

\* channels the caller has registered and not unregistered since
Registered == { c \in Channels : conn[c] = "open" }

\* C11: for every sequence of addClient/removeClient calls, getClientCount()
\* equals the number of channels that have been registered and not yet
\* unregistered; a channel registered twice is counted once.
C11_CountIsRegisteredChannels ==
  getClientCount(clients) = Cardinality(Registered)

\* C12: removeClient on a channel that is not currently registered (never
\* registered, or already unregistered) leaves the registered channels and
\* their order unchanged, so a second removeClient for the same channel
\* changes nothing: only the removal of a registered channel alters the
\* array without growing it.
C12_RemoveUnregisteredIsNoOp ==
  [][ (clients' # clients /\ Len(clients') <= Len(clients)) =>
        \E c \in Channels : conn[c] = "open" /\ conn'[c] = "closed" ]_vars

\* C13: when the rebuild subprocess closes with a code other than 0, no
\* reload message is written to any channel, the rendered content and the
\* registered channels are unchanged, and the server keeps running.
C13_FailedRebuildChangesNothing ==
  [][ \A p \in ProcSlots :
        (CloseStep(p) /\ tsc[p].code # 0) =>
          /\ out'.writes = << >>
          /\ out'.calls = 0
          /\ currentHtmlContent' = currentHtmlContent
          /\ clients' = clients
          /\ pc' = "running"
          /\ listening' ]_vars

\* a failed rebuild has just been handled while channels are registered
C13_Witness ==
  /\ out.log = << REBUILD_FAILED_PREFIX >>
  /\ clients # << >>
  /\ pc = "running"
  /\ ~isRebuilding

\* C14: whether the source tree is watched is fixed at startup by WATCH_MODE.
\* When it is anything other than "true" (or absent) the source watcher is
\* never created, no source change is ever reported and no rebuild ever
\* starts; when it is "true" both the content file and the source tree are
\* watched.  The content file is watched in both cases.
C14_SourceWatchingFixedByWatchMode ==
  /\ pc \in {"running", "crashed"} =>
       /\ markdownWatcher = "watching"
       /\ (sourceWatcher = "watching") <=> (watchModeEnv = "true")
  /\ watchModeEnv # "true" =>
       /\ sourceWatcher = "undefined"
       /\ srcPending = << >>
       /\ ~isRebuilding
       /\ \A p \in ProcSlots : tsc[p].st = "free"
       /\ REBUILDING \notin Range(out.log)

\* started with WATCH_MODE=1: the content file is watched and has been
\* reloaded once, the source tree is not watched
C14_Witness ==
  /\ watchModeEnv = "1"
  /\ pc = "running"
  /\ markdownWatcher = "watching"
  /\ sourceWatcher = "undefined"
  /\ Len(out.log) >= 1 /\ out.log[1] = FILE_CHANGED_PREFIX

\* the step is a run of the source watcher's 'change' handler
SourceChangeStep == Len(srcPending') < Len(srcPending)

\* C15: a change event of the source tree requests a rebuild if and only if
\* its path ends in .ts or .js (a.ts, a.js); a change to any other file
\* (a.json) is ignored silently: nothing is logged and the
\* rebuild coordinator is not touched.
C15_RebuildOnlyForTsOrJs ==
  [][ SourceChangeStep =>
        IF Head(srcPending) \in { <<"a", ".", "t", "s">>, <<"a", ".", "j", "s">> }
          THEN /\ Len(out'.log) = 2
               /\ out'.log[1] = SOURCE_CHANGED_PREFIX
               /\ out'.log[2] \in {REBUILDING, REBUILD_IN_PROGRESS}
               /\ isRebuilding'
          ELSE /\ out' = Quiet
               /\ isRebuilding' = isRebuilding
               /\ tsc' = tsc ]_vars

\* the handler has just requested a rebuild for a .ts or .js path and the
\* subprocess was started
C15_Witness ==
  /\ out.log = << SOURCE_CHANGED_PREFIX, REBUILDING >>
  /\ srcPending = << >>
  /\ isRebuilding
  /\ \E p \in ProcSlots : tsc[p].st = "running"

\* C16: subscribing the content watcher runs its handler zero times (the
\* server starts with the initial render, no pending change and no write);
\* each modification of the file raises one change event, each event is
\* handled by one run of the handler, which renders the file once, and
\* nothing else re-renders.
C16_OneRenderPerChangeNoneOnStart ==
  [][ /\ (pc = "init" /\ pc' = "running") =>
           /\ mdPending' = 0
           /\ out'.writes = << >>
           /\ currentHtmlContent' = loadMarkdown(file)
      /\ mdPending' > mdPending =>
           /\ mdPending' = mdPending + 1
           /\ file'.content = file.content + 1
      /\ MarkdownChangeStep =>
           /\ mdPending' = mdPending - 1
           /\ currentHtmlContent' = loadMarkdown(file)
      /\ currentHtmlContent' # currentHtmlContent =>
           MarkdownChangeStep \/ pc = "init" ]_vars

\* one modification was made and its one event has been handled
C16_Witness ==
  /\ file.content = 1
  /\ mdPending = 0
  /\ Len(out.log) >= 1 /\ out.log[1] = FILE_CHANGED_PREFIX
  /\ currentHtmlContent = loadMarkdown(file)
  /\ pc = "running"

\* the step is a run of the GET / handler
GetRootStep == out'.response # << >>

\* values loadMarkdown can return: a complete render or the error page
CompleteRenders ==
  { [tag |-> "html", of |-> n] : n \in 0..MaxEdits } \cup
  { [tag |-> "error", of |-> 0] }

\* C17: every GET / response is the full HTML document wrapping the value
\* most recently assigned to the rendered-content cell, and from the moment
\* the server listens the cell holds the complete result of one load,
\* never the undefined value it has before main assigns it.
C17_ResponseWrapsCurrentContent ==
  [][ /\ listening' =>
           /\ currentHtmlContent' \in CompleteRenders
           /\ currentHtmlContent' # [tag |-> "undefined", of |-> 0]
      /\ GetRootStep =>
           /\ Len(out'.response) = 1
           /\ out'.response[1].doctype = "<!DOCTYPE html>"
           /\ out'.response[1].body.container = currentHtmlContent
           /\ currentHtmlContent' = currentHtmlContent
           /\ out'.writes = << >> ]_vars

\* GET / has just been answered with the render of the edited file
C17_Witness ==
  /\ Len(out.response) = 1
  /\ out.response[1].body.container = [tag |-> "html", of |-> 1]
  /\ file.content = 1
  /\ currentHtmlContent = [tag |-> "html", of |-> 1]

\* the step opens an event stream
OpenStep == \E c \in Channels : conn[c] = "new" /\ conn'[c] = "open"

C19_NoArgumentPrintsUsageToStderr ==
  [][ (pc = "init" /\ argsLength = 0) =>
        /\ pc' = "exited"
        /\ exitCode' = 1
        /\ "Usage: npm start <path-to-markdown-file.md>" \in Range(Stderr(out'))
        /\ ~listening'
        /\ markdownWatcher' = "undefined"
        /\ sourceWatcher' = "undefined" ]_vars

\* C20: the code-block renderer classifies each block by its language tag.
\* A tag exactly equal to "mermaid" yields one <div class="mermaid"> holding
\* the block's text, so k mermaid blocks yield k such divs; a tag that
\* highlight.js supports yields <pre><code class="hljs language-X">; any
\* other tag, no tag, or an error thrown by the highlighter yields the
\* default code rendering.
C20_CodeBlocksClassifiedByTag ==
  currentHtmlContent.tag = "html" =>
    LET b == file.content
        r == currentHtmlContent.of
        Divs == { i \in 1..Len(r) :
                    r[i].el = "div" /\ r[i].class = << "mermaid" >> }
    IN /\ Len(r) = Len(b)
       /\ Divs = { i \in 1..Len(b) : b[i].language = "mermaid" }
       /\ \A i \in Divs : r[i].inner.text = b[i].code
       /\ \A i \in (1..Len(b)) \ Divs :
            /\ r[i].el = "pre>code"
            /\ r[i].inner.text = b[i].code
            /\ IF b[i].language \in {"javascript", "python"}
                    /\ ~b[i].highlightThrows
                 THEN /\ r[i].class = << "hljs", "language-", b[i].language >>
                      /\ r[i].inner.how = "highlighted"
                 ELSE /\ r[i].class = (IF b[i].language = "undefined"
                                          THEN << >>
                                          ELSE << "language-", b[i].language >>)
                      /\ r[i].inner.how = "escaped"

\* a rendered document of two mermaid blocks, and hence two mermaid divs
C20_Witness ==
  /\ currentHtmlContent.tag = "html"
  /\ Len(file.content) = 2
  /\ \A i \in 1..2 :
       /\ file.content[i].language = "mermaid"
       /\ currentHtmlContent.of[i].el = "div"

\* the response of the latest step was produced by a route or by a static
\* handler of the application
AnsweredByApp ==
  /\ out.response # << >>
  /\ out.response[1].by # "finalhandler"

\* C21: every response produced by GET /, GET /events and the static and
\* vendor handlers carries the five security headers, because the security
\* middleware runs before every route and static handler; the script-src
\* directive of the Content-Security-Policy is exactly 'self' and never
\* contains 'unsafe-inline'.
C21_EveryResponseHasSecurityHeaders ==
  AnsweredByApp =>
    LET h == out.response[1].headers
        csp == h["Content-Security-Policy"]
        ScriptSrc == { i \in 1..Len(csp) : csp[i][1] = "script-src" }
    IN /\ Cardinality(ScriptSrc) = 1
       /\ \A i \in ScriptSrc : csp[i][2] = << "'self'" >>
       /\ \E i \in 1..Len(csp) : csp[i] = << "default-src", << "'self'" >> >>
       /\ h["X-Content-Type-Options"] = "nosniff"
       /\ h["X-Frame-Options"] = "DENY"
       /\ h["X-XSS-Protection"] = "1; mode=block"
       /\ h["Referrer-Policy"] = "strict-origin-when-cross-origin"

\* a vendor asset has just been served while an event stream is open
C21_Witness ==
  /\ AnsweredByApp
  /\ out.response[1].by = "static:mermaid"
  /\ out.response[1].headers["X-Frame-Options"] = "DENY"
  /\ clients # << >>

\* C22: a rebuild() call made while the coordinator is Running returns at
\* once: it starts no subprocess, invokes no callback and queues nothing.
\* The completion of the rebuild in flight invokes at most the one callback
\* of the accepted call and leaves the coordinator Idle with no subprocess;
\* only a source-change event makes it Running again, and a .ts/.js change
\* handled while it is Idle does start a rebuild.
C22_RebuildWhileRunningIsNoOp ==
  [][ /\ (SourceChangeStep /\ isRebuilding) =>
           /\ tsc' = tsc
           /\ isRebuilding'
           /\ out'.calls = 0
           /\ out'.writes = << >>
      /\ out'.calls <= 1
      /\ (\E p \in ProcSlots : CloseStep(p)) =>
           /\ ~isRebuilding'
           /\ \A q \in ProcSlots : tsc'[q].st = "free"
      /\ (isRebuilding' /\ ~isRebuilding) => SourceChangeStep
      /\ ( /\ SourceChangeStep
           /\ ~isRebuilding
           /\ Head(srcPending) \in
                { <<"a", ".", "t", "s">>, <<"a", ".", "j", "s">> } ) =>
           /\ isRebuilding'
           /\ \E p \in ProcSlots :
                tsc[p].st = "free" /\ tsc'[p].st # "free" ]_vars

\* a rebuild request has just been skipped while the subprocess of the
\* accepted one has exited with code 0 and its close is still to be handled
C22_Witness ==
  /\ out.log = << SOURCE_CHANGED_PREFIX, REBUILD_IN_PROGRESS >>
  /\ isRebuilding
  /\ \E p \in ProcSlots : tsc[p].st = "exited" /\ tsc[p].code = 0
  /\ clients # << >>

\* the rebuild in flight is still in flight after the step
StillInFlight == isRebuilding' /\ tsc' = tsc

\* C23: a rebuild in flight blocks no other flow.  In every state of the
\* running server in which the coordinator is Running, GET / can be served,
\* a pending content change can be re-rendered and broadcast, a new event
\* stream can be registered and a closed one unregistered, each of them
\* leaving the rebuild in flight.
C23_RebuildDoesNotBlockOtherFlows ==
  (pc = "running" /\ isRebuilding /\ InFlight # {}) =>
    /\ ENABLED (GetRoot /\ StillInFlight)
    /\ mdPending > 0 =>
         ENABLED ( /\ HandleMarkdownChange
                   /\ currentHtmlContent' = loadMarkdown(file)
                   /\ Len(out'.writes) = Len(clients)
                   /\ StillInFlight )
    /\ \A c \in Channels :
         /\ (conn[c] = "new" /\ \A d \in 1..(c - 1) : conn[d] # "new") =>
              ENABLED (Connect(c) /\ c \in Range(clients') /\ StillInFlight)
         /\ conn[c] = "closing" =>
              ENABLED (HandleClose(c) /\ c \notin Range(clients')
                         /\ StillInFlight)

\* a content change has just been rendered and broadcast while the
\* subprocess of a rebuild is running
C23_Witness ==
  /\ isRebuilding
  /\ \E p \in ProcSlots : tsc[p].st = "running"
  /\ Len(out.log) >= 1 /\ out.log[1] = FILE_CHANGED_PREFIX
  /\ out.writes # << >>
  /\ currentHtmlContent = loadMarkdown(file)
  /\ pc = "running"

\* the step belongs to a stopWatching() call
StopStep == stopCall' # stopCall

\* C24: stopWatching() called while a rebuild is Running does not cancel it.
\* No step of stopWatching() touches the flag or the subprocess, and when
\* the subprocess closes after stopWatching() has returned the coordinator
\* returns to Idle and, for exit code 0, onSuccess is invoked and the reload
\* is written to the registered channels.
C24_StopWatchingDoesNotCancelRebuild ==
  [][ /\ StopStep => (isRebuilding' = isRebuilding /\ tsc' = tsc)
      /\ \A p \in ProcSlots :
           (CloseStep(p) /\ stopCall = "returned") =>
             /\ ~isRebuilding'
             /\ out'.calls = (IF tsc[p].code = 0 THEN 1 ELSE 0)
             /\ (tsc[p].code = 0 /\ out'.threw = {}) =>
                  /\ WrittenTo(out') = Range(clients)
                  /\ \A i \in 1..Len(out'.writes) :
                       out'.writes[i].data = "data: reload\n\n" ]_vars

\* a rebuild started before stopWatching() has completed with code 0 after
\* stopWatching() returned, and the reload went to both channels
C24_Witness ==
  /\ stopCall = "returned"
  /\ sourceWatcher = "closed"
  /\ out.calls = 1
  /\ Len(out.writes) = 2
  /\ ~isRebuilding

\* C25: stopWatching() can be called whether neither, one or both watchers
\* were started and never ends the process; when it has returned, every
\* watcher that was started is fully closed and no change event is waiting;
\* and from then on no content-change or source-change handler runs: the
\* rendered content is not assigned and no rebuild is started.
C25_StopWatchingClosesEverything ==
  [][ /\ StopStep => pc' = "running"
      /\ stopCall' = "returned" =>
           /\ markdownWatcher' \in {"undefined", "closed"}
           /\ sourceWatcher' \in {"undefined", "closed"}
           /\ mdPending' = 0
           /\ srcPending' = << >>
      /\ (stopCall = "returned" /\ stopCall' = "returned") =>
           /\ ~MarkdownChangeStep
           /\ ~SourceChangeStep
           /\ currentHtmlContent' = currentHtmlContent
           /\ isRebuilding' => isRebuilding ]_vars

\* stopWatching() has returned with both watchers closed; the file has been
\* edited but the rendered content is still that of the unedited file
C25_Witness ==
  /\ stopCall = "returned"
  /\ markdownWatcher = "closed"
  /\ sourceWatcher = "closed"
  /\ file.content = 1
  /\ file.readable
  /\ currentHtmlContent = [tag |-> "html", of |-> 0]

\* C26: notifyReload() writes to the registered channels in registration
\* order (Response objects are numbered in the order in which they are
\* registered), and removing a channel keeps the relative order of the
\* others: the array is always in registration order and the writes of a
\* step follow the array from its first element on.
C26_WritesInRegistrationOrder ==
  [][ /\ \A i \in 1..Len(out'.writes) :
           i <= Len(clients) /\ out'.writes[i].to = clients[i]
      /\ \A i, j \in 1..Len(clients') :
           i < j => clients'[i] < clients'[j] ]_vars

\* the second of three channels has been removed and a reload has just been
\* written to the first and then to the third
C26_Witness ==
  /\ clients = << 1, 3 >>
  /\ Len(out.writes) = 2
  /\ out.writes[1].to = 1
  /\ out.writes[2].to = 3

\* C27: each piece of shared state has one writer.  The rendered-content
\* cell is assigned only by the initial load and by the content-change
\* handler; the rebuild flag changes only in a source-change handler
\* (rebuild start) and in a close handler (completion); the content-change
\* handler leaves the flag alone; a step that registers or unregisters a
\* channel changes neither; and a step that broadcasts (notifyReload)
\* leaves the channel array unchanged.
C27_OneWriterPerSharedState ==
  [][ /\ currentHtmlContent' # currentHtmlContent =>
           pc = "init" \/ MarkdownChangeStep
      /\ isRebuilding' # isRebuilding =>
           SourceChangeStep \/ \E p \in ProcSlots : CloseStep(p)
      /\ MarkdownChangeStep => isRebuilding' = isRebuilding
      /\ clients' # clients =>
           /\ currentHtmlContent' = currentHtmlContent
           /\ isRebuilding' = isRebuilding
           /\ out'.writes = << >>
      /\ (MarkdownChangeStep \/ OnSuccessStep \/ out'.writes # << >>) =>
           clients' = clients ]_vars

\* a successful rebuild has just broadcast while an edit of the content file
\* waits for its handler: the cell still holds the render of the old content
C27_Witness ==
  /\ out.calls = 1
  /\ out.writes # << >>
  /\ mdPending = 1
  /\ file.content = 1
  /\ currentHtmlContent = loadMarkdown([readable |-> TRUE, content |-> 0])

\* the file's own name (the part after the last separator) begins with '.'
NameBeginsWithDot(path) ==
  \E i \in 1..Len(path) :
    /\ path[i] = "."
    /\ i = 1 \/ path[i - 1] \in {"/", "\\"}
    /\ \A j \in (i + 1)..Len(path) : path[j] \notin {"/", "\\"}

\* C28: the dotfile rule of the source watcher removes exactly the files
\* whose own name begins with '.': such a file is never reported, and
\* whenever the watcher can take a further event, a change to a .ts or .js
\* file whose own name does not begin with '.' can be reported.
C28_DotfileRuleFiltersByFileName ==
  /\ \A i \in 1..Len(srcPending) : ~NameBeginsWithDot(srcPending[i])
  /\ ( /\ pc = "running"
       /\ sourceWatcher = "watching"
       /\ Len(srcPending) < MaxSourcePending ) =>
       \A path \in SourcePaths :
         ( /\ ~NameBeginsWithDot(path)
           /\ \/ EndsWith(path, <<".", "t", "s">>)
              \/ EndsWith(path, <<".", "j", "s">>) ) =>
           ENABLED TouchSource(path)

\* path.resolve(dir, arg): an absolute arg stands for itself, a relative one
\* is taken below dir
ResolvedAgainst(dir, arg) ==
  IF arg.abs THEN normalize(arg)
  ELSE normalize([abs |-> dir.abs, segs |-> dir.segs \o arg.segs])

\* C29: the previewed and watched file is the argument resolved against the
\* current working directory when the argument is relative, and the
\* argument's own absolute path when it is absolute.
C29_RelativeAndAbsolutePathsAccepted ==
  markdownFilePath # Undefined =>
    markdownFilePath = ResolvedAgainst(cwd, arg0)

\* the state right after a 'close' listener whose onSuccess() threw
OnSuccessThrew == out.log = << REBUILD_COMPLETE >> /\ out.threw # {}

\* C30: the flag is reset before onSuccess is invoked, so when onSuccess
\* throws the coordinator is not left Running and the next source-change
\* event starts a rebuild.
C30_ThrowingOnSuccessLeavesCoordinatorUsable ==
  OnSuccessThrew =>
    /\ ~isRebuilding
    /\ srcPending # << >> => ENABLED HandleSourceChange

\* the half that holds: the coordinator is Idle after every 'close',
\* whether or not onSuccess threw
C30_FlagResetBeforeOnSuccess == OnSuccessThrew => ~isRebuilding

\* the step is a broadcast: notifyReload() called by the content-change
\* handler or by onSuccess
BroadcastStep == MarkdownChangeStep \/ OnSuccessStep

\* the number of messages the step o wrote to channel c
Received(o, c) == Cardinality({ i \in 1..Len(o.writes) : o.writes[i].to = c })

\* C31: a channel receives reload messages only for the broadcasts issued
\* while it is registered, and one for each of them: a step writes nothing to
\* a channel that is not in the registry (not yet registered, or
\* unregistered), a step that is no broadcast (a registration among them)
\* writes nothing, and a broadcast writes exactly one message to every
\* registered channel whose own write does not fail.
C31_MessagesEqualBroadcastsWhileRegistered ==
  [][ /\ \A c \in Channels \ Range(clients) : Received(out', c) = 0
      /\ ~BroadcastStep => out'.writes = << >>
      /\ BroadcastStep =>
           \A c \in Range(clients) \ out'.threw : Received(out', c) = 1
    ]_vars

\* the half that holds: no write outside the registration, no replay, and at
\* most one message per broadcast
C31_NoWriteOutsideRegistration ==
  [][ /\ \A c \in Channels \ Range(clients) : Received(out', c) = 0
      /\ ~BroadcastStep => out'.writes = << >>
      /\ \A c \in Range(clients) : Received(out', c) <= 1
    ]_vars

\* C32: content-change events are handled one at a time, each handler
\* re-reading the file and overwriting the cell in full.  A run of the
\* handler takes exactly one pending event and leaves in the cell the render
\* of the file as it was read in that run; no other step of the running
\* server assigns the cell.  So N handled events make N re-renders and the
\* cell holds the render made for the last handled event.
C32_BurstHandledOneAtATime ==
  [][ /\ MarkdownChangeStep =>
           /\ mdPending' = mdPending - 1
           /\ currentHtmlContent' = loadMarkdown(file)
      /\ ~MarkdownChangeStep => currentHtmlContent' = currentHtmlContent
    ]_vars

\* inside a burst: the handler has just run for the first of two pending
\* events, after the file was rewritten, and the second is still pending
C32_Witness ==
  /\ mdPending = 1
  /\ out.log = << FILE_CHANGED_PREFIX >>
  /\ file.content = 1
  /\ currentHtmlContent = parseMarkdown(1)

\* C33: whatever watchMarkdownFile and watchSourceCode calls were made on
\* the FileWatcher, the same method more than once included, when
\* stopWatching() has returned no watcher it created is still active: the
\* watchers of both fields are closed and none was left behind open.
C33_NoWatcherActiveAfterStopWatching ==
  stopCall = "returned" =>
    /\ markdownWatcher \in {"undefined", "closed"}
    /\ sourceWatcher \in {"undefined", "closed"}
    /\ replaced = NoneReplaced

====
